---- MODULE Spec2Model ----
(***************************************************************************)
(* Publish-task scheduler and retry engine of MatrixService                *)
(* (src/src/main/services/matrix-service.js) together with the timer that  *)
(* drives it (src/src/main/main.js).                                       *)
(*                                                                         *)
(* runDueTasks is an async function: it runs synchronously up to an await  *)
(* (adapter.publish, sendAlert), is suspended there, and resumes when the  *)
(* awaited promise settles.  Every action below is one such synchronous    *)
(* run; between two of them the timer, the operator (IPC) calls and other  *)
(* suspended invocations may run.                                          *)
(***************************************************************************)
EXTENDS Integers, Sequences, FiniteSets, TLC

\* ---------------------------------------------------------------- bounds
MaxTasks  == 2   \* schedules ever created
MaxTime   == 1   \* last instant of the clock (seconds)
MaxStarts == 4   \* runDueTasks invocations ever started
MaxOps    == 1   \* operator calls (cancel / retry / executeNow / deleteAccount)
MaxCycles == 2   \* runDueTasks invocations suspended at the same time

\* ------------------------------------------------------ program constants
MaxRetry  == 2     \* retryCount <= 2 keeps the task retrying
LogCap    == 100   \* task_logs retention
MetricCap == 500   \* publish_metrics retention

TaskIds    == 1..MaxTasks
Cycles     == 1..MaxCycles
AccountIds == {"a1"}
GhostAccount == "a0"           \* an id no account ever has
Registered == {"douyin", "xiaohongshu", "toutiao"}
AddPlatforms == {"toutiao", "other"}   \* payload.platform is any string
Null       == "null"
NullTime   == <<>>             \* a NULL timestamp column
At(t)      == <<t>>            \* the ISO text of instant t
BadDate    == <<>>             \* a publish_at text that Date cannot parse
PublishTimes == {At(0), At(MaxTime), BadDate}   \* payload.publishAt is any text
RemoteIds  == {"r1", "r2"}
ErrorCodes == {"AUTH_FAILED"}

\* enforceRateLimit on one adapter instance
MaxNow        == 7   \* the adapter's clock runs from MinIntervalMs to MaxNow
MaxRateCalls  == 3   \* calls of enforceRateLimit made on the instance
MinIntervalMs == 2   \* the interval asked for, in ticks of the adapter's clock
RateCalls == 1..MaxRateCalls

\* the token of one DouyinAdapter instance
MaxTokNow    == 6   \* the adapter's clock runs from 1 to MaxTokNow
MaxAuthCalls == 2   \* calls of ensureAuthenticated made on the instance
MockLifetime == 3   \* 7200 s, in ticks of the adapter's clock
Margin       == 2   \* the 300 s taken off the reported lifetime, in ticks
Lifetimes    == {1, 2, 3, 4}   \* expires_in as the platform reports it, in ticks
AuthCalls    == 1..MaxAuthCalls

\* the remote calls of one publish in real mode
MaxRemoteNow == 6   \* the clock of the dispatch runs from 0 to MaxRemoteNow
TimeoutTicks == 2   \* this.timeoutMs, in ticks of that clock

MaxWords == 2   \* a message passed to mapApiError holds at most MaxWords of the texts
MaxExtra == 2   \* a table holds at most MaxExtra rows more than its cap when it is trimmed

VARIABLES
  clock,     \* Date.now(), in seconds
  accounts,  \* table accounts: id -> [platform]
  usedAcc,   \* account ids handed out by randomUUID so far
  tasks,     \* table schedules: id -> row
  logs,      \* table task_logs, in created_at order
  metrics,   \* table publish_metrics, in created_at order
  alerts,    \* calls made to alertReporter.notify
  cyc,       \* the invocations of runDueTasks: their locals and where they are suspended
  hist,      \* history of each task since its creation or last operator reset
  starts,    \* number of runDueTasks invocations so far
  ops,       \* number of operator calls so far
  vcall,     \* the last direct call of validateContentCompliance: arguments and outcome
  pcall,     \* the last direct call of an adapter's publish: arguments and outcome
  acall,     \* the last direct call of AlertReporter.notify: reporter, outcome, requests made
  ccall,     \* the last construction of an adapter: class, configuration, outcome
  rl,        \* one adapter instance under enforceRateLimit calls: time, lastRunAt, the calls
  ucall,     \* the observed call of a step of runDueTasks or of mapApiError, its inputs and result
  tcall,     \* the observed retention run: the two tables before and after the DELETEs
  tok,       \* one DouyinAdapter instance and its token: time, mode, token fields, the calls
  rc         \* one real-mode publish and its remote calls: time, position, timer, outcome

vars == <<clock, accounts, usedAcc, tasks, logs, metrics, alerts, cyc, hist, starts, ops,
          vcall, pcall, acall, ccall, tcall, ucall, rl, tok, rc>>
units == <<rl, tok, rc>>
calls == <<vcall, pcall, acall, ccall, tcall, ucall, units>>
sched == <<clock, accounts, usedAcc, tasks, logs, metrics, alerts, cyc, hist, starts, ops>>

\* the five tables a poll cycle reads and writes, as one value
Store == [tasks |-> tasks, logs |-> logs, metrics |-> metrics, alerts |-> alerts, hist |-> hist]

IdleCycle == [pc |-> "idle", snap |-> <<>>, idx |-> 0, now |-> 0, platform |-> Null]

FreshHist == [att |-> 0, fails |-> 0, inflight |-> 0, dueCycles |-> 0, miss |-> FALSE,
              op |-> "none", exhausted |-> FALSE]

\* dueCycles counts the poll cycles a task was due for, up to one more than a task can use
DueCap == MaxRetry + 2

Terminal == {"success", "failed", "cancelled"}

\* ------------------------------------------------------------ store helpers
Put(f, k, v) == [x \in DOMAIN f \cup {k} |-> IF x = k THEN v ELSE f[x]]
Drop(f, k)   == [x \in DOMAIN f \ {k} |-> f[x]]
RECURSIVE SeqOfSet(_)
SeqOfSet(S) == IF S = {} THEN <<>>
               ELSE LET m == CHOOSE x \in S : \A y \in S : x <= y
                    IN <<m>> \o SeqOfSet(S \ {m})
LastN(s, n) == IF Len(s) <= n THEN s ELSE SubSeq(s, Len(s) - n + 1, Len(s))
Count(s, P(_)) == Cardinality({i \in 1..Len(s) : P(s[i])})

\* UPDATE schedules SET ... WHERE id = ?  (no row, no change)
UpdateTask(st, id, F(_)) ==
  IF id \in DOMAIN st.tasks THEN [st EXCEPT !.tasks[id] = F(@)] ELSE st
UpdateHist(st, id, F(_)) ==
  IF id \in DOMAIN st.hist THEN [st EXCEPT !.hist[id] = F(@)] ELSE st

logTask(st, taskId, level) ==
  [st EXCEPT !.logs = Append(@, [taskId |-> taskId, level |-> level])]

recordPublishMetric(st, taskId, platform, success, errorCode) ==
  [st EXCEPT !.metrics = Append(@, [taskId |-> taskId, platform |-> platform,
                                    success |-> success, errorCode |-> errorCode])]

\* the synchronous part of sendAlert: alertReporter.notify({event, details, ...})
\* is called; details is {taskId, accountId} or {taskId, platform, errorCode}
notifyCalled(st, event, taskId, accountId, platform, errorCode) ==
  [st EXCEPT !.alerts = Append(@, [event |-> event, taskId |-> taskId, accountId |-> accountId,
                                   platform |-> platform, errorCode |-> errorCode])]

\* ------------------------------------------------------- content validator
\* a value that may be null or undefined: None, or Some(x)
None    == <<>>
Some(x) == <<x>>

\* A text is given by its length and by the words of the vocabulary that occur
\* in it (String.includes); "" is the text of length 0.
Vocabulary == {"w1", "w2"}
WordLen    == 2
Text(pad, has) == [len |-> pad + WordLen * Cardinality(has), has |-> has]
EmptyText  == Text(0, {})
Space      == Text(1, {})
Concat(a, b) == [len |-> a.len + b.len, has |-> a.has \cup b.has]
\* x || ''
OrEmpty(x) == IF x = None THEN EmptyText ELSE x[1]

PlatformLimits ==
  [douyin      |-> [titleMaxLength |-> 55, bodyMaxLength |-> 2000, maxImages |-> 9,  minImages |-> 1],
   xiaohongshu |-> [titleMaxLength |-> 20, bodyMaxLength |-> 1000, maxImages |-> 9,  minImages |-> 1],
   toutiao     |-> [titleMaxLength |-> 30, bodyMaxLength |-> 5000, maxImages |-> 20, minImages |-> 0]]

\* the words of the list found in the text; wordList None means the global list
checkSensitiveWords(content, wordList, globalList) ==
  IF content.len = 0 THEN {}
  ELSE LET wordsToCheck == IF wordList # None THEN wordList[1] ELSE globalList
       IN {w \in wordsToCheck : w \in content.has}

\* a platform without limits accepted as one with nothing to check
validateContentFormat_AnyPlatform(content, platform) ==
  IF platform \notin DOMAIN PlatformLimits THEN {}
  ELSE LET limits == PlatformLimits[platform]
           title  == OrEmpty(content.title)
           body   == OrEmpty(content.body)
       IN {e \in {"title", "body", "fewImages", "manyImages"} :
             \/ e = "title" /\ title.len > limits.titleMaxLength
             \/ e = "body" /\ body.len > limits.bodyMaxLength
             \/ e = "fewImages" /\ content.images # None /\ content.images[1] < limits.minImages
             \/ e = "manyImages" /\ content.images # None /\ content.images[1] > limits.maxImages}

\* the set of format errors of a content object [title, body, images]: title
\* and body are None or Some(text), images is None or Some(number of images)
validateContentFormat(content, platform) ==
  IF platform \notin DOMAIN PlatformLimits THEN {"platform"}
  ELSE LET limits == PlatformLimits[platform]
           title  == OrEmpty(content.title)
           body   == OrEmpty(content.body)
       IN {e \in {"title", "body", "fewImages", "manyImages"} :
             \/ e = "title" /\ title.len > limits.titleMaxLength
             \/ e = "body" /\ body.len > limits.bodyMaxLength
             \/ e = "fewImages" /\ content.images # None /\ content.images[1] < limits.minImages
             \/ e = "manyImages" /\ content.images # None /\ content.images[1] > limits.maxImages}

\* the format check made before the sensitive-word check
validateContentCompliance_FormatFirst(content, platform, wordList, globalList) ==
  IF content = None THEN "TypeError"
  ELSE IF validateContentFormat(content[1], platform) # {} THEN "INVALID_PAYLOAD"
  ELSE IF checkSensitiveWords(Concat(Concat(OrEmpty(content[1].title), Space),
                                     OrEmpty(content[1].body)), wordList, globalList) # {}
  THEN "CONTENT_VIOLATION"
  ELSE "pass"

\* what validateContentCompliance(content, platform, wordList) throws: the
\* error's code, or TypeError for the property read on a null content; "pass"
\* when it returns
validateContentCompliance(content, platform, wordList, globalList) ==
  IF content = None THEN "TypeError"
  ELSE LET c == content[1]
           fullText == Concat(Concat(OrEmpty(c.title), Space), OrEmpty(c.body))
       IN IF checkSensitiveWords(fullText, wordList, globalList) # {} THEN "CONTENT_VIOLATION"
          ELSE IF validateContentFormat(c, platform) # {} THEN "INVALID_PAYLOAD"
          ELSE "pass"

\* --------------------------------------------------------- platform adapters
\* this.mode of an adapter that was constructed
Modes == {"mock", "real"}

\* the unified error codes the adapters classify into
Taxonomy == {"AUTH_FAILED", "RATE_LIMIT", "INVALID_PAYLOAD", "TIMEOUT",
             "CAPTCHA_REQUIRED", "CONTENT_VIOLATION", "REQUEST_FAILED"}

\* content types; the three mock_* stand for the texts the mock adapters treat
\* as forced failures, image-text and video for the two routed types
ContentTypes == {"article", "image-text", "video",
                 "mock_auth_failure", "mock_rate_limit", "mock_invalid_payload"}

\* what adapter.publish settles with
Ok(remoteId)         == [ok |-> TRUE, remoteId |-> remoteId, code |-> Null, message |-> Null]
Thrown(code, message) == [ok |-> FALSE, remoteId |-> Null, code |-> code, message |-> message]
\* an exception that is not a PlatformApiError has no code
TypeError == Thrown(Null, "TypeError")

\* the texts raw.includes(...) looks for, by the category of the branch that
\* looks for them; "yanzhengma", "weigui" and "mingan" stand for the three
\* Chinese markers
MarkersOf ==
  [AUTH_FAILED       |-> {"AUTH", "UNAUTHORIZED", "401"},
   RATE_LIMIT        |-> {"RATE_LIMIT", "TOO_MANY_REQUESTS", "429"},
   INVALID_PAYLOAD   |-> {"INVALID_PAYLOAD", "INVALID_PARAM", "BAD_REQUEST", "400"},
   TIMEOUT           |-> {"TIMEOUT", "ETIMEDOUT", "ECONNABORTED"},
   CAPTCHA_REQUIRED  |-> {"CAPTCHA", "VERIFY", "yanzhengma"},
   CONTENT_VIOLATION |-> {"CONTENT_VIOLATION", "SENSITIVE", "weigui", "mingan"}]

Markers == UNION {MarkersOf[c] : c \in DOMAIN MarkersOf}

\* the texts a message is made of: the markers and a word that is none
RawWords == Markers \cup {"Unknown"}

mapApiError_TimeoutFirst(raw) ==
  IF raw \cap {"TIMEOUT", "ETIMEDOUT", "ECONNABORTED"} # {} THEN Thrown("TIMEOUT", "timeout")
  ELSE IF raw \cap {"AUTH", "UNAUTHORIZED", "401"} # {} THEN Thrown("AUTH_FAILED", "auth")
  ELSE IF raw \cap {"RATE_LIMIT", "TOO_MANY_REQUESTS", "429"} # {} THEN Thrown("RATE_LIMIT", "rate")
  ELSE IF raw \cap {"INVALID_PAYLOAD", "INVALID_PARAM", "BAD_REQUEST", "400"} # {}
       THEN Thrown("INVALID_PAYLOAD", "payload")
  ELSE IF raw \cap {"CAPTCHA", "VERIFY", "yanzhengma"} # {} THEN Thrown("CAPTCHA_REQUIRED", "captcha")
  ELSE IF raw \cap {"CONTENT_VIOLATION", "SENSITIVE", "weigui", "mingan"} # {}
       THEN Thrown("CONTENT_VIOLATION", "content")
  ELSE Thrown("REQUEST_FAILED", "request")

\* a raw message is the set of the texts it includes
mapApiError(raw) ==
  IF raw \cap {"AUTH", "UNAUTHORIZED", "401"} # {} THEN Thrown("AUTH_FAILED", "auth")
  ELSE IF raw \cap {"RATE_LIMIT", "TOO_MANY_REQUESTS", "429"} # {} THEN Thrown("RATE_LIMIT", "rate")
  ELSE IF raw \cap {"INVALID_PAYLOAD", "INVALID_PARAM", "BAD_REQUEST", "400"} # {}
       THEN Thrown("INVALID_PAYLOAD", "payload")
  ELSE IF raw \cap {"TIMEOUT", "ETIMEDOUT", "ECONNABORTED"} # {} THEN Thrown("TIMEOUT", "timeout")
  ELSE IF raw \cap {"CAPTCHA", "VERIFY", "yanzhengma"} # {} THEN Thrown("CAPTCHA_REQUIRED", "captcha")
  ELSE IF raw \cap {"CONTENT_VIOLATION", "SENSITIVE", "weigui", "mingan"} # {}
       THEN Thrown("CONTENT_VIOLATION", "content")
  ELSE Thrown("REQUEST_FAILED", "request")

\* the remote side as one dispatch meets it: how the token request and the
\* publish request end, the code and id the remote sends, the text of a
\* network error
RawCodes == {"E4001"}
Replies ==
  [auth : {"granted", "rejected"}, publish : {"accepted", "refused", "abort", "network"},
   errorCode : {Null} \cup RawCodes, remoteId : {"r1"}, raw : {{}, {"ETIMEDOUT"}}]

\* BaseAdapter.callRemotePublish in real mode with a publishUrl
callRemotePublish(reply) ==
  CASE reply.publish = "accepted" -> Ok(reply.remoteId)
    [] reply.publish = "refused"  ->
         Thrown(IF reply.errorCode # Null THEN reply.errorCode ELSE "REQUEST_FAILED", "refused")
    [] reply.publish = "abort"    -> Thrown("TIMEOUT", "timeout")
    [] reply.publish = "network"  -> mapApiError(reply.raw)

\* DouyinAdapter.authenticate, as ensureAuthenticated calls it without a valid token
authenticate(mode, reply) ==
  IF mode = "mock" \/ reply.auth = "granted" THEN Ok(Null) ELSE Thrown("AUTH_FAILED", "auth")

\* publish of the two adapters that go straight to the request
PlainPublish(mode, contentType, forced, raw, reply) ==
  IF mode = "real" THEN callRemotePublish(reply)
  ELSE IF contentType = forced THEN mapApiError(raw)
  ELSE Ok("r1")

XiaohongshuPublish(mode, contentType, contentAsset, globalList, reply) ==
  PlainPublish(mode, contentType, "mock_rate_limit", {"RATE_LIMIT"}, reply)

ToutiaoPublish(mode, contentType, contentAsset, globalList, reply) ==
  PlainPublish(mode, contentType, "mock_invalid_payload", {"INVALID_PAYLOAD"}, reply)

\* DouyinAdapter.publish: token, compliance check, then the route of the type
DouyinPublish(mode, contentType, contentAsset, globalList, reply) ==
  LET auth  == authenticate(mode, reply)
      check == validateContentCompliance(contentAsset, "douyin", None, globalList)
  IN IF ~auth.ok THEN auth
     ELSE IF check = "TypeError" THEN TypeError
     ELSE IF check # "pass" THEN Thrown(check, "compliance")
     ELSE IF contentType = "image-text"
          THEN IF mode = "mock" THEN Ok("r1") ELSE TypeError
     ELSE IF contentType = "video"
          THEN IF ~contentAsset[1].videoUrl THEN Thrown("INVALID_PAYLOAD", "videoUrl")
               ELSE IF mode = "mock" THEN Ok("r1") ELSE TypeError
     ELSE IF mode = "real" THEN callRemotePublish(reply)
     ELSE IF contentType = "mock_auth_failure" THEN mapApiError({"AUTH"})
     ELSE Ok("r1")

\* adapter.publish({account, contentType, contentAsset}) of the registry's adapter
AdapterPublish(platform, mode, contentType, contentAsset, globalList, reply) ==
  CASE platform = "douyin"      -> DouyinPublish(mode, contentType, contentAsset, globalList, reply)
    [] platform = "xiaohongshu" -> XiaohongshuPublish(mode, contentType, contentAsset, globalList, reply)
    [] platform = "toutiao"     -> ToutiaoPublish(mode, contentType, contentAsset, globalList, reply)

\* The steps one publish() performs, in the order of its statements: the
\* rate-limit wait, ensureAuthenticated, the compliance check, the routed
\* publish (publishImageText, publishVideo, callRemotePublish or the mock
\* reply) and, inside it, the request to the platform.
PlainSteps(mode) ==
  IF mode = "real" THEN <<"rateLimit", "publish", "remote">> ELSE <<"rateLimit", "publish">>

DouyinSteps(mode, contentType, contentAsset, globalList, reply) ==
  LET auth  == authenticate(mode, reply)
      check == validateContentCompliance(contentAsset, "douyin", None, globalList)
  IN IF ~auth.ok THEN <<"rateLimit", "ensureAuthenticated">>
     ELSE IF check # "pass" THEN <<"rateLimit", "ensureAuthenticated", "compliance">>
     ELSE IF contentType \notin {"image-text", "video"} /\ mode = "real"
          THEN <<"rateLimit", "ensureAuthenticated", "compliance", "publish", "remote">>
     ELSE <<"rateLimit", "ensureAuthenticated", "compliance", "publish">>

PublishSteps(platform, mode, contentType, contentAsset, globalList, reply) ==
  IF platform = "douyin" THEN DouyinSteps(mode, contentType, contentAsset, globalList, reply)
  ELSE PlainSteps(mode)

\* ------------------------------------------------------------- runDueTasks
\* SELECT ... WHERE status = 'scheduled' OR status = 'retrying', in rowid order
SelectDue(tb) ==
  LET ids == {id \in DOMAIN tb : tb[id].status \in {"scheduled", "retrying"}}
      seq == SeqOfSet(ids)
  IN [i \in 1..Len(seq) |->
        [id |-> seq[i], accountId |-> tb[seq[i]].accountId,
         contentType |-> tb[seq[i]].contentType, contentAssetId |-> tb[seq[i]].contentAssetId,
         publishAt |-> tb[seq[i]].publishAt, retryCount |-> tb[seq[i]].retryCount]]

\* Number.isNaN(new Date(text).getTime())
IsNaN(text) == Len(text) = 0

\* the skip test without Number.isNaN: NaN > now is false, so the row goes on
IsDue_NaNPasses(row, now) == ~(~IsNaN(row.publishAt) /\ row.publishAt[1] > now)

\* if (Number.isNaN(ts) || ts > now) continue
IsDue(row, now) == ~(IsNaN(row.publishAt) \/ row.publishAt[1] > now)

MissingAccountErr == "account_missing"
AdapterMissing    == [code |-> Null, message |-> "adapter_missing"]
\* the error caught: its code (absent on a plain Error) and its message
AdapterError(o)   == [code |-> o.code, message |-> o.message]

\* a missing account handled like a transient failure
MissingRow_Retried(r, t) ==
  [r EXCEPT !.status = "retrying", !.retryCount = @ + 1, !.errorMessage = MissingAccountErr]

\* UPDATE schedules SET status = 'failed', completed_at = ?, error_message = ?
MissingRow(r, t) ==
  [r EXCEPT !.status = "failed", !.completedAt = At(t), !.errorMessage = MissingAccountErr]

\* account not found: straight to failed, two logs, alert
MissingAccount(st, row, t) ==
  LET s1 == UpdateTask(st, row.id, LAMBDA r : MissingRow(r, t))
      s2 == logTask(s1, row.id, "error")
      s3 == logTask(s2, row.id, "alert")
      s4 == notifyCalled(s3, "publish_failed_missing_account", row.id, row.accountId, Null, Null)
  IN UpdateHist(s4, row.id, LAMBDA h : [h EXCEPT !.miss = TRUE])

\* UPDATE schedules SET status = 'running', started_at = ?
MarkRunning(st, row, t) ==
  LET s1 == UpdateTask(st, row.id, LAMBDA r :
              [r EXCEPT !.status = "running", !.startedAt = At(t)])
  IN UpdateHist(s1, row.id, LAMBDA h : [h EXCEPT !.att = @ + 1])

\* adapter.publish(...) has been called and is awaited
Dispatched(st, row) ==
  UpdateHist(st, row.id, LAMBDA h : [h EXCEPT !.inflight = @ + 1])

\* the success update without error_message = NULL
SuccessRow_KeepsError(r, result, t) ==
  [r EXCEPT !.status = "success", !.completedAt = At(t), !.remoteId = result.remoteId]

\* UPDATE schedules SET status = 'success', completed_at = ?, error_message = NULL, remote_id = ?
SuccessRow(r, result, t) ==
  [r EXCEPT !.status = "success", !.completedAt = At(t),
            !.errorMessage = Null, !.remoteId = result.remoteId]

\* the try block after adapter.publish returned `result`
PublishSucceeded(st, row, platform, result, t) ==
  LET s1 == UpdateTask(st, row.id, LAMBDA r : SuccessRow(r, result, t))
      s2 == logTask(s1, row.id, "info")
  IN recordPublishMetric(s2, row.id, platform, TRUE, Null)

\* the gate compared before the increment: three retries, four attempts
RetryGate_OffByOne(retryCount) == retryCount - 1 <= MaxRetry

\* if (retryCount <= 2): retry again, else give up
RetryGate(retryCount) == retryCount <= MaxRetry

\* the catch block giving up without the alert log and without sendAlert
PublishFailed_QuietFinal(st, row, platform, err, t) ==
  LET retryCount == row.retryCount + 1
      h1 == UpdateHist(st, row.id, LAMBDA h : [h EXCEPT !.fails = @ + 1])
      s1 == UpdateTask(h1, row.id, LAMBDA r :
              IF RetryGate(retryCount)
              THEN [r EXCEPT !.status = "retrying", !.retryCount = retryCount,
                             !.errorMessage = err.message]
              ELSE [r EXCEPT !.status = "failed", !.completedAt = At(t),
                             !.retryCount = retryCount, !.errorMessage = err.message])
      s2 == logTask(s1, row.id, IF RetryGate(retryCount) THEN "warn" ELSE "error")
      s3 == recordPublishMetric(s2, row.id, platform, FALSE,
              IF err.code # Null THEN err.code
              ELSE IF RetryGate(retryCount) THEN "RETRY" ELSE "FAILED")
  IN [st |-> s3, alert |-> FALSE]

\* the catch block; alert tells whether sendAlert is awaited afterwards
PublishFailed(st, row, platform, err, t) ==
  LET retryCount == row.retryCount + 1
      h1 == UpdateHist(st, row.id, LAMBDA h : [h EXCEPT !.fails = @ + 1])
  IN IF RetryGate(retryCount)
     THEN LET s1 == UpdateTask(h1, row.id, LAMBDA r :
                      [r EXCEPT !.status = "retrying", !.retryCount = retryCount,
                                !.errorMessage = err.message])
              s2 == logTask(s1, row.id, "warn")
              s3 == recordPublishMetric(s2, row.id, platform, FALSE,
                       IF err.code # Null THEN err.code ELSE "RETRY")
          IN [st |-> s3, alert |-> FALSE]
     ELSE LET s1 == UpdateTask(h1, row.id, LAMBDA r :
                      [r EXCEPT !.status = "failed", !.completedAt = At(t),
                                !.retryCount = retryCount, !.errorMessage = err.message])
              code == IF err.code # Null THEN err.code ELSE "FAILED"
              s2 == logTask(s1, row.id, "error")
              s3 == recordPublishMetric(s2, row.id, platform, FALSE, code)
              s4 == logTask(s3, row.id, "alert")
              s5 == notifyCalled(s4, "publish_failed_final", row.id, Null, platform, code)
          IN [st |-> s5, alert |-> TRUE]

\* the two DELETE ... NOT IN (SELECT ... ORDER BY created_at DESC LIMIT n)
TrimStore(st) ==
  [st EXCEPT !.logs = LastN(@, LogCap), !.metrics = LastN(@, MetricCap)]

\* The for loop from position cy.idx up to the next await, or to the end of
\* runDueTasks.  accs is the accounts table and t the clock of this run.
RECURSIVE Advance(_, _, _, _)
Advance(st, cy, accs, t) ==
  IF cy.idx > Len(cy.snap) THEN [st |-> TrimStore(st), cy |-> IdleCycle]
  ELSE
    LET row  == cy.snap[cy.idx]
        next == [cy EXCEPT !.idx = @ + 1, !.platform = Null]
    IN IF ~IsDue(row, cy.now) THEN Advance(st, next, accs, t)
       ELSE IF row.accountId \notin DOMAIN accs
       THEN [st |-> MissingAccount(st, row, t), cy |-> [cy EXCEPT !.pc = "alert"]]
       ELSE
         LET platform == accs[row.accountId].platform
             s1 == MarkRunning(st, row, t)
         IN IF platform \notin Registered
            THEN LET r == PublishFailed(s1, row, platform, AdapterMissing, t)
                 IN IF r.alert
                    THEN [st |-> r.st, cy |-> [cy EXCEPT !.pc = "alert", !.platform = platform]]
                    ELSE Advance(r.st, next, accs, t)
            ELSE [st |-> Dispatched(s1, row),
                  cy |-> [cy EXCEPT !.pc = "publish", !.platform = platform]]

\* what adapter.publish can settle with: a result carrying a remoteId, or a thrown error
Outcomes == {Ok(r) : r \in RemoteIds} \cup {Thrown(c, c) : c \in ErrorCodes}

\* runDueTasks from its first line to its first await (or its end)
BeginCycle(st, accs, t) ==
  LET cy == [pc |-> "run", snap |-> SelectDue(st.tasks), idx |-> 1, now |-> t, platform |-> Null]
      s1 == [st EXCEPT !.hist = [id \in DOMAIN @ |->
                IF IsDue(st.tasks[id], t)
                THEN [@[id] EXCEPT !.dueCycles = IF @ < DueCap THEN @ + 1 ELSE @]
                ELSE @[id]]]
  IN Advance(s1, cy, accs, t)

\* adapter.publish awaited outside the try: a rejection ends runDueTasks
AfterPublish_NoCatch(st, cy, o, accs, t) ==
  LET row  == cy.snap[cy.idx]
      next == [cy EXCEPT !.pc = "run", !.idx = @ + 1, !.platform = Null]
      s0   == UpdateHist(st, row.id, LAMBDA h : [h EXCEPT !.inflight = @ - 1])
  IN IF o.ok
     THEN Advance(PublishSucceeded(s0, row, cy.platform, o, t), next, accs, t)
     ELSE [st |-> s0, cy |-> IdleCycle]

\* runDueTasks resumed when the awaited adapter.publish settles with outcome o
AfterPublish(st, cy, o, accs, t) ==
  LET row  == cy.snap[cy.idx]
      next == [cy EXCEPT !.pc = "run", !.idx = @ + 1, !.platform = Null]
      s0   == UpdateHist(st, row.id, LAMBDA h : [h EXCEPT !.inflight = @ - 1])
  IN IF o.ok
     THEN Advance(PublishSucceeded(s0, row, cy.platform, o, t), next, accs, t)
     ELSE LET r == PublishFailed(s0, row, cy.platform, AdapterError(o), t)
          IN IF r.alert THEN [st |-> r.st, cy |-> [cy EXCEPT !.pc = "alert"]]
             ELSE Advance(r.st, next, accs, t)

\* sendAlert without its try/catch: a rejected notify ends runDueTasks
AfterAlert_Rethrows(st, cy, delivered, accs, t) ==
  IF delivered
  THEN Advance(st, [cy EXCEPT !.pc = "run", !.idx = @ + 1, !.platform = Null], accs, t)
  ELSE [st |-> st, cy |-> IdleCycle]

\* runDueTasks resumed when the awaited sendAlert settles; delivered = notify resolved
AfterAlert(st, cy, delivered, accs, t) ==
  LET row  == cy.snap[cy.idx]
      next == [cy EXCEPT !.pc = "run", !.idx = @ + 1, !.platform = Null]
      s1   == IF delivered THEN st ELSE logTask(st, row.id, "warn")
  IN Advance(s1, next, accs, t)

\* ------------------------------------------------------ operator operations
NewTask(accountId, publishAt, contentType, contentAssetId) ==
  [accountId |-> accountId, contentType |-> contentType, contentAssetId |-> contentAssetId,
   publishAt |-> publishAt, status |-> "scheduled",
   startedAt |-> NullTime, completedAt |-> NullTime, errorMessage |-> Null,
   retryCount |-> 0, remoteId |-> Null]

schedulePublish(tb, id, accountId, publishAt, contentType, contentAssetId) ==
  Put(tb, id, NewTask(accountId, publishAt, contentType, contentAssetId))

\* cancel without the status condition of its WHERE clause
cancelSchedule_AnyStatus(tb, id, t) ==
  IF id \in DOMAIN tb
  THEN [tb EXCEPT ![id] = [@ EXCEPT !.status = "cancelled", !.completedAt = At(t)]]
  ELSE tb

cancelSchedule(tb, id, t) ==
  IF id \in DOMAIN tb /\ tb[id].status \in {"scheduled", "retrying"}
  THEN [tb EXCEPT ![id] = [@ EXCEPT !.status = "cancelled", !.completedAt = At(t)]]
  ELSE tb

\* retry without retry_count = 0
retrySchedule_KeepsCount(tb, id) ==
  IF id \in DOMAIN tb
  THEN [tb EXCEPT ![id] = [@ EXCEPT !.status = "scheduled",
                                    !.errorMessage = Null, !.completedAt = NullTime]]
  ELSE tb

retrySchedule(tb, id) ==
  IF id \in DOMAIN tb
  THEN [tb EXCEPT ![id] = [@ EXCEPT !.status = "scheduled", !.retryCount = 0,
                                    !.errorMessage = Null, !.completedAt = NullTime]]
  ELSE tb

executeScheduleNow(tb, id, t) ==
  IF id \in DOMAIN tb
  THEN [tb EXCEPT ![id] = [@ EXCEPT !.status = "scheduled", !.publishAt = At(t - 1),
                                    !.retryCount = 0, !.errorMessage = Null,
                                    !.completedAt = NullTime]]
  ELSE tb

\* ------------------------------------------------------------ bookkeeping
Active(c)  == cyc[c].pc # "idle"
AllIdle    == \A c \in Cycles : ~Active(c)
\* the tasks invocation c has read and not yet finished with: the rows after the
\* current one, and the current one while its publish is awaited (while the
\* alert is awaited, the current row has had its last write)
Pending(c) ==
  IF ~Active(c) THEN {}
  ELSE LET from == IF cyc[c].pc = "alert" THEN cyc[c].idx + 1 ELSE cyc[c].idx
       IN {cyc[c].snap[i].id : i \in from..Len(cyc[c].snap)}
\* no invocation still holds a row of task id that it read before now
Unread(id) == \A c \in Cycles : id \notin Pending(c)

ResetHist(h, id, kind) ==
  IF id \in DOMAIN h
  THEN [h EXCEPT ![id] = [FreshHist EXCEPT
          !.inflight = h[id].inflight,
          !.op = IF Unread(id) THEN kind
                 ELSE IF kind = "exec" THEN "dirtyExec" ELSE "dirty",
          !.exhausted = (tasks[id].status = "failed" /\ tasks[id].retryCount = MaxRetry + 1)]]
  ELSE h

\* ----------------------------------------------------------------- actions
Init ==
  /\ clock = 0
  /\ accounts = [a \in {} |-> [platform |-> Null, status |-> Null]]
  /\ usedAcc = {}
  /\ tasks = [i \in {} |-> NewTask(GhostAccount, At(0), "article", Null)]
  /\ logs = <<>>
  /\ metrics = <<>>
  /\ alerts = <<>>
  /\ cyc = [c \in Cycles |-> IdleCycle]
  /\ hist = [i \in {} |-> FreshHist]
  /\ starts = 0
  /\ ops = 0
  /\ vcall = None
  /\ pcall = None
  /\ acall = None
  /\ ccall = None
  /\ tok = [now |-> 1, mode |-> Null, accessToken |-> None, tokenExpiresAt |-> 0,
            authedAt |-> None, call |-> [k \in AuthCalls |-> "idle"]]
  /\ tcall = None
  /\ ucall = None
  /\ rc = [now |-> 0, platform |-> Null, pc |-> "idle", since |-> 0, timer |-> None,
           status |-> Some(200), result |-> None]
  /\ rl = [now |-> MinIntervalMs, lastRunAt |-> 0, stamps |-> <<>>,
           call |-> [k \in RateCalls |-> [pc |-> "idle", wake |-> 0]]]

Commit(r, c) ==
  /\ tasks' = r.st.tasks
  /\ logs' = r.st.logs
  /\ metrics' = r.st.metrics
  /\ alerts' = r.st.alerts
  /\ hist' = r.st.hist
  /\ cyc' = [cyc EXCEPT ![c] = r.cy]

\* time passes
Tick ==
  /\ clock < MaxTime
  /\ clock' = clock + 1
  /\ UNCHANGED <<accounts, usedAcc, tasks, logs, metrics, alerts, cyc, hist, starts, ops, calls>>

AddAccount ==
  /\ AccountIds \ usedAcc # {}
  /\ \E id \in AccountIds \ usedAcc, p \in AddPlatforms :
       /\ accounts' = Put(accounts, id, [platform |-> p, status |-> "active"])
       /\ usedAcc' = usedAcc \cup {id}
  /\ UNCHANGED <<clock, tasks, logs, metrics, alerts, cyc, hist, starts, ops, calls>>

DeleteAccount ==
  /\ ops < MaxOps
  /\ \E id \in DOMAIN accounts : accounts' = Drop(accounts, id)
  /\ ops' = ops + 1
  /\ UNCHANGED <<clock, usedAcc, tasks, logs, metrics, alerts, cyc, hist, starts, calls>>

SchedulePublish ==
  /\ Cardinality(DOMAIN tasks) < MaxTasks
  /\ LET id == Cardinality(DOMAIN tasks) + 1
     IN \E a \in usedAcc \cup {GhostAccount}, at \in PublishTimes :
          /\ tasks' = schedulePublish(tasks, id, a, at, "article", Null)
          /\ hist' = Put(hist, id, FreshHist)
  /\ UNCHANGED <<clock, accounts, usedAcc, logs, metrics, alerts, cyc, starts, ops, calls>>

\* the operator calls, for any id the caller passes (a schedule or not)
CancelCall(id) ==
  /\ ops < MaxOps
  /\ tasks' = cancelSchedule(tasks, id, clock)
  /\ hist' = IF tasks' # tasks THEN [hist EXCEPT ![id].op = "dirty"] ELSE hist
  /\ ops' = ops + 1
  /\ UNCHANGED <<clock, accounts, usedAcc, logs, metrics, alerts, cyc, starts, calls>>

RetryCall(id) ==
  /\ ops < MaxOps
  /\ tasks' = retrySchedule(tasks, id)
  /\ hist' = ResetHist(hist, id, "retry")
  /\ ops' = ops + 1
  /\ UNCHANGED <<clock, accounts, usedAcc, logs, metrics, alerts, cyc, starts, calls>>

ExecuteNowCall(id) ==
  /\ ops < MaxOps
  /\ tasks' = executeScheduleNow(tasks, id, clock)
  /\ hist' = ResetHist(hist, id, "exec")
  /\ ops' = ops + 1
  /\ UNCHANGED <<clock, accounts, usedAcc, logs, metrics, alerts, cyc, starts, calls>>

CancelSchedule     == \E id \in TaskIds : CancelCall(id)
RetrySchedule      == \E id \in TaskIds : RetryCall(id)
ExecuteScheduleNow == \E id \in TaskIds : ExecuteNowCall(id)

\* invocation slot c starts runDueTasks
RunDueTasks(c) ==
  /\ ~Active(c)
  /\ \A d \in Cycles : d < c => Active(d)
  /\ starts < MaxStarts
  /\ starts' = starts + 1
  /\ Commit(BeginCycle(Store, accounts, clock), c)
  /\ UNCHANGED <<clock, accounts, usedAcc, ops, calls>>

\* setInterval(() => matrixService.runDueTasks()...): nothing looks at a running invocation
TimerFires == \E c \in Cycles : RunDueTasks(c)

\* a timer that fires only when no invocation is suspended
TimerFiresIdle == AllIdle /\ RunDueTasks(1)

\* the adapter.publish awaited by invocation c settles with outcome o
PublishSettlesWith(c, o) ==
  /\ cyc[c].pc = "publish"
  /\ Commit(AfterPublish(Store, cyc[c], o, accounts, clock), c)
  /\ UNCHANGED <<clock, accounts, usedAcc, starts, ops, calls>>

PublishSettles == \E c \in Cycles : \E o \in Outcomes : PublishSettlesWith(c, o)

\* the alertReporter.notify awaited by invocation c resolves (delivered) or rejects
AlertSettlesWith(c, delivered) ==
  /\ cyc[c].pc = "alert"
  /\ Commit(AfterAlert(Store, cyc[c], delivered, accounts, clock), c)
  /\ UNCHANGED <<clock, accounts, usedAcc, starts, ops, calls>>

AlertSettles == \E c \in Cycles : \E delivered \in BOOLEAN : AlertSettlesWith(c, delivered)

\* every interleaving of the timer, the operator and the suspended invocations
Next ==
  \/ Tick
  \/ AddAccount
  \/ DeleteAccount
  \/ SchedulePublish
  \/ CancelSchedule
  \/ RetrySchedule
  \/ ExecuteScheduleNow
  \/ TimerFires
  \/ PublishSettles
  \/ AlertSettles

Spec == Init /\ [][Next]_vars

\* the timer and the invocations alone: no cancel, retry, executeNow or delete
NextTimer ==
  \/ Tick
  \/ AddAccount
  \/ SchedulePublish
  \/ TimerFires
  \/ PublishSettles
  \/ AlertSettles

SpecTimer == Init /\ [][NextTimer]_vars

\* poll cycles run one after another, each to completion before the next starts
NextSeq ==
  \/ Tick
  \/ AddAccount
  \/ DeleteAccount
  \/ SchedulePublish
  \/ CancelSchedule
  \/ RetrySchedule
  \/ ExecuteScheduleNow
  \/ TimerFiresIdle
  \/ PublishSettles
  \/ AlertSettles

SpecSeq == Init /\ [][NextSeq]_vars

\* UPDATE accounts SET status = ? WHERE id = ?
updateAccountStatus(accs, id, status) ==
  IF id \in DOMAIN accs THEN [accs EXCEPT ![id].status = status] ELSE accs

AccountStatuses == {"active", "disabled"}

UpdateAccountStatus ==
  /\ ops < MaxOps
  /\ \E id \in AccountIds, status \in AccountStatuses :
       accounts' = updateAccountStatus(accounts, id, status)
  /\ ops' = ops + 1
  /\ UNCHANGED <<clock, usedAcc, tasks, logs, metrics, alerts, cyc, hist, starts, calls>>

\* poll cycles one after another, and an operator who sets account statuses
NextStatus ==
  \/ Tick
  \/ AddAccount
  \/ SchedulePublish
  \/ UpdateAccountStatus
  \/ TimerFiresIdle
  \/ PublishSettles
  \/ AlertSettles

SpecStatus == Init /\ [][NextStatus]_vars

\* poll cycles and operator calls run one at a time, each to completion: a
\* call of the service is made only while no invocation is suspended
AddAccountIdle         == AllIdle /\ AddAccount
DeleteAccountIdle      == AllIdle /\ DeleteAccount
SchedulePublishIdle    == AllIdle /\ SchedulePublish
CancelScheduleIdle     == AllIdle /\ CancelSchedule
RetryScheduleIdle      == AllIdle /\ RetrySchedule
ExecuteScheduleNowIdle == AllIdle /\ ExecuteScheduleNow

NextAtomic ==
  \/ Tick
  \/ AddAccountIdle
  \/ DeleteAccountIdle
  \/ SchedulePublishIdle
  \/ CancelScheduleIdle
  \/ RetryScheduleIdle
  \/ ExecuteScheduleNowIdle
  \/ TimerFiresIdle
  \/ PublishSettles
  \/ AlertSettles

SpecAtomic == Init /\ [][NextAtomic]_vars

\* ------------------------------------- poll cycles against the mock adapters
\* the content_assets table: one row the validator passes on every platform
\* and one whose title holds a sensitive word
ContentAssets ==
  [as1 |-> [title |-> Some(Text(1, {})), body |-> Some(Text(1, {})), images |-> None,
            videoUrl |-> FALSE],
   as2 |-> [title |-> Some(Text(1, {"w1"})), body |-> Some(Text(1, {})), images |-> None,
            videoUrl |-> FALSE]]
\* the sensitive-word list in force
SensitiveWords == {"w1"}
\* task.contentAssetId ? SELECT ... .get(task.contentAssetId) : null
AssetOf(contentAssetId) ==
  IF contentAssetId \in DOMAIN ContentAssets THEN Some(ContentAssets[contentAssetId]) ELSE None

MockPlatforms == Registered \cup {"other"}
MockTypes     == {"article", "mock_auth_failure"}
\* "as3" is the id of an asset deleted after scheduling (deleteContentAsset)
MockAssetIds  == {Null, "as1", "as2", "as3"}

AddAnyAccount ==
  /\ AccountIds \ usedAcc # {}
  /\ \E id \in AccountIds \ usedAcc, p \in MockPlatforms :
       /\ accounts' = Put(accounts, id, [platform |-> p, status |-> "active"])
       /\ usedAcc' = usedAcc \cup {id}
  /\ UNCHANGED <<clock, tasks, logs, metrics, alerts, cyc, hist, starts, ops, calls>>

ScheduleContent ==
  /\ Cardinality(DOMAIN tasks) < MaxTasks
  /\ LET id == Cardinality(DOMAIN tasks) + 1
     IN \E a \in usedAcc, contentType \in MockTypes, contentAssetId \in MockAssetIds :
          /\ tasks' = schedulePublish(tasks, id, a, At(0), contentType, contentAssetId)
          /\ hist' = Put(hist, id, FreshHist)
  /\ UNCHANGED <<clock, accounts, usedAcc, logs, metrics, alerts, cyc, starts, ops, calls>>

\* what the adapter of the row's platform, built in mock mode, settles with
MockOutcome(c, reply) ==
  AdapterPublish(cyc[c].platform, "mock", cyc[c].snap[cyc[c].idx].contentType,
                 AssetOf(cyc[c].snap[cyc[c].idx].contentAssetId), SensitiveWords, reply)

MockPublishSettles ==
  \E c \in Cycles : \E reply \in Replies :
     cyc[c].pc = "publish" /\ PublishSettlesWith(c, MockOutcome(c, reply))

AlertDelivered == \E c \in Cycles : AlertSettlesWith(c, TRUE)

NextMock ==
  \/ Tick
  \/ AddAnyAccount
  \/ ScheduleContent
  \/ TimerFiresIdle
  \/ MockPublishSettles
  \/ AlertDelivered

SpecMock == Init /\ [][NextMock]_vars

\* --------------------------------------------------------------- rate limit

\* this.lastRunAt = Date.now(), the last line of enforceRateLimit
Stamp(r, k) ==
  [r EXCEPT !.lastRunAt = r.now, !.stamps = Append(@, r.now), !.call[k].pc = "done"]

\* enforceRateLimit(minIntervalMs) from its first line to the await, or to
\* its end when there is nothing to wait for
enforceRateLimit(r, k) ==
  LET delta == r.now - r.lastRunAt
  IN IF delta < MinIntervalMs
     THEN [r EXCEPT !.call[k] = [pc |-> "waiting", wake |-> r.now + (MinIntervalMs - delta)]]
     ELSE Stamp(r, k)

\* a call of enforceRateLimit starts; calls in flight are not waited for
RateCall(k) ==
  /\ rl.call[k].pc = "idle"
  /\ rl' = enforceRateLimit(rl, k)
  /\ UNCHANGED <<sched, vcall, pcall, acall, ccall, tcall, ucall, tok, rc>>

\* the timer of wait(ms) fires, at its time or later, and the call resumes
RateWake(k) ==
  /\ rl.call[k].pc = "waiting"
  /\ rl.now >= rl.call[k].wake
  /\ rl' = Stamp(rl, k)
  /\ UNCHANGED <<sched, vcall, pcall, acall, ccall, tcall, ucall, tok, rc>>

RateTick ==
  /\ rl.now < MaxNow
  /\ rl' = [rl EXCEPT !.now = @ + 1]
  /\ UNCHANGED <<sched, vcall, pcall, acall, ccall, tcall, ucall, tok, rc>>

NextRate ==
  \/ \E k \in RateCalls : RateCall(k)
  \/ \E k \in RateCalls : RateWake(k)
  \/ RateTick

SpecRate == Init /\ [][NextRate]_vars

\* -------------------------------------------------------------------- token
\* the token still counted valid at the instant it expires
isTokenValid_Inclusive(a) == a.accessToken # None /\ a.now <= a.tokenExpiresAt

\* !!(this.accessToken && Date.now() < this.tokenExpiresAt)
isTokenValid(a) == a.accessToken # None /\ a.now < a.tokenExpiresAt

\* what the token endpoint answers: a token with its lifetime, an error
\* response, a response without access_token, or nothing before the abort
AuthReplies ==
  [kind : {"granted"}, expires_in : Lifetimes]
    \cup [kind : {"rejected", "no_token", "abort"}, expires_in : {0}]

\* authenticate() stores the token: mock_token or access_token, and the expiry
StoreToken(a, k, lifetime) ==
  [a EXCEPT !.accessToken = Some(a.now), !.tokenExpiresAt = a.now + lifetime,
            !.authedAt = Some(a.now), !.call[k] = "done"]

\* ensureAuthenticated() up to its return or to the await of the token request
ensureAuthenticated(a, k) ==
  IF isTokenValid(a) THEN [a EXCEPT !.call[k] = "done"]
  ELSE IF a.mode = "mock" THEN StoreToken(a, k, MockLifetime)
  ELSE [a EXCEPT !.call[k] = "fetching"]

\* authenticate() in real mode after the response, or the abort, has arrived
AfterAuthFetch(a, k, reply) ==
  IF reply.kind = "granted" THEN StoreToken(a, k, reply.expires_in - Margin)
  ELSE [a EXCEPT !.call[k] = "thrown"]

TokConstruct ==
  /\ tok.mode = Null
  /\ \E mode \in Modes : tok' = [tok EXCEPT !.mode = mode]
  /\ UNCHANGED <<sched, vcall, pcall, acall, ccall, tcall, ucall, rl, rc>>

TokEnsure(k) ==
  /\ tok.mode # Null /\ tok.call[k] = "idle"
  /\ tok' = ensureAuthenticated(tok, k)
  /\ UNCHANGED <<sched, vcall, pcall, acall, ccall, tcall, ucall, rl, rc>>

TokFetched(k) ==
  /\ tok.call[k] = "fetching"
  /\ \E reply \in AuthReplies : tok' = AfterAuthFetch(tok, k, reply)
  /\ UNCHANGED <<sched, vcall, pcall, acall, ccall, tcall, ucall, rl, rc>>

TokTick ==
  /\ tok.now < MaxTokNow
  /\ tok' = [tok EXCEPT !.now = @ + 1]
  /\ UNCHANGED <<sched, vcall, pcall, acall, ccall, tcall, ucall, rl, rc>>

NextToken ==
  \/ TokConstruct
  \/ \E k \in AuthCalls : TokEnsure(k)
  \/ \E k \in AuthCalls : TokFetched(k)
  \/ TokTick

SpecToken == Init /\ [][NextToken]_vars

\* ----------------------------------------------------- adapter construction
\* DouyinAdapter, XiaohongshuAdapter and ToutiaoAdapter, the classes the
\* registry constructs, take a configuration object and pass it on to
\* BaseAdapter. No environment variable is set.
AdapterClasses == Registered

\* a configuration: every field absent (None) or supplied
ConfigModes    == {None, Some("mock"), Some("real"), Some("test"), Some("")}
ConfigUrls     == {None, Some("blank"), Some("malformed"), Some("wellformed")}
ConfigIds      == {None, Some("placeholder"), Some("own")}
ConfigTimeouts == {None, Some("zero"), Some("negative"), Some("NaN"), Some("fraction"),
                   Some("positive")}
Configs ==
  [mode : ConfigModes, publishUrl : ConfigUrls, appId : ConfigIds, appSecret : ConfigIds,
   timeoutMs : ConfigTimeouts]

\* x || undefined in a subclass constructor: a falsy value counts as absent
Falsy(x) == x \in {Some(""), Some("zero"), Some("NaN")}
OrUndefined(x) == IF Falsy(x) THEN None ELSE x

\* the object a subclass constructor hands to BaseAdapter
configWithEnv(config) ==
  [mode |-> OrUndefined(config.mode), publishUrl |-> OrUndefined(config.publishUrl),
   appId |-> OrUndefined(config.appId), appSecret |-> OrUndefined(config.appSecret),
   timeoutMs |-> OrUndefined(config.timeoutMs)]

\* the destructuring defaults of BaseAdapter's constructor
Default(x, d) == IF x = None THEN d ELSE x[1]

\* !(Number.isNaN(this.timeoutMs) || this.timeoutMs <= 0)
TimeoutOk(timeoutMs) == timeoutMs \in {"positive", "fraction"}

\* BaseAdapter's constructor with validateConfig(): the adapter's fields, or
\* None when INVALID_CONFIG is thrown
BaseConstruct(cfg) ==
  LET mode       == Default(cfg.mode, "mock")
      publishUrl == Default(cfg.publishUrl, "")
      appId      == Default(cfg.appId, "placeholder")
      appSecret  == Default(cfg.appSecret, "placeholder")
      timeoutMs  == Default(cfg.timeoutMs, "positive")
  IN IF mode \notin Modes THEN None
     ELSE IF mode = "real" /\ publishUrl \in {"", "blank"} THEN None
     ELSE IF mode = "real" /\ publishUrl = "malformed" THEN None
     ELSE IF mode = "real" /\ appId \in {"", "placeholder"} THEN None
     ELSE IF mode = "real" /\ appSecret \in {"", "placeholder"} THEN None
     ELSE IF ~TimeoutOk(timeoutMs) THEN None
     ELSE Some([mode |-> mode, publishUrl |-> publishUrl, timeoutMs |-> timeoutMs])

\* new <class>(config)
Construct(class, config) == BaseConstruct(configWithEnv(config))

\* ------------------------------------------ remote calls of a real-mode publish
\* where a publish in real mode can be suspended on the remote side: the token
\* request (DouyinAdapter.authenticate) and the publish request
\* (callRemotePublish), each first for the response and then for its body
Awaiting == {"authFetch", "authBody", "publishFetch", "publishBody"}

\* setTimeout(() => controller.abort(), this.timeoutMs) before a fetch
Arm(r, pc) == [r EXCEPT !.pc = pc, !.since = r.now, !.timer = Some(r.now + TimeoutTicks)]

Settle(r, result) == [r EXCEPT !.pc = "done", !.timer = None, !.result = Some(result)]

\* publish() in real mode up to its first request: DouyinAdapter asks for a
\* token unless it holds a valid one, the other adapters go to callRemotePublish
StartPublish(r, platform, tokenValid) ==
  IF platform = "douyin" /\ ~tokenValid
  THEN Arm([r EXCEPT !.platform = platform], "authFetch")
  ELSE Arm([r EXCEPT !.platform = platform], "publishFetch")

\* the response of the awaited fetch arrives with the given HTTP status:
\* authenticate clears its timer, callRemotePublish keeps it until finally
ResponseArrives(r, status) ==
  IF r.pc = "authFetch"
  THEN [r EXCEPT !.pc = "authBody", !.timer = None, !.status = Some(status)]
  ELSE [r EXCEPT !.pc = "publishBody", !.status = Some(status)]

\* the awaited body arrives and parses to a reply
BodyArrives(r, reply) ==
  IF r.pc = "authBody"
  THEN IF r.status = Some(200) /\ reply.auth = "granted" THEN Arm(r, "publishFetch")
       ELSE Settle(r, Thrown("AUTH_FAILED", "auth"))
  ELSE IF r.status = Some(200) /\ reply.publish = "accepted" THEN Settle(r, Ok(reply.remoteId))
       ELSE Settle(r, Thrown(IF reply.errorCode # Null THEN reply.errorCode ELSE "REQUEST_FAILED",
                             "refused"))

\* the timer fires and aborts the request: the awaited fetch rejects with
\* AbortError; an aborted res.json() in callRemotePublish is caught to {}
Abort(r) ==
  IF r.pc \in {"authFetch", "publishFetch"} THEN Settle(r, Thrown("TIMEOUT", "timeout"))
  ELSE IF r.status = Some(200) THEN Settle(r, Ok("r1"))
  ELSE Settle(r, Thrown("REQUEST_FAILED", "refused"))

RemoteStart ==
  /\ rc.pc = "idle"
  /\ \E platform \in Registered, tokenValid \in BOOLEAN : rc' = StartPublish(rc, platform, tokenValid)
  /\ UNCHANGED <<sched, vcall, pcall, acall, ccall, tcall, ucall, rl, tok>>

RemoteResponds ==
  /\ rc.pc \in {"authFetch", "publishFetch"}
  /\ \E status \in {200, 500} : rc' = ResponseArrives(rc, status)
  /\ UNCHANGED <<sched, vcall, pcall, acall, ccall, tcall, ucall, rl, tok>>

RemoteSendsBody ==
  /\ rc.pc \in {"authBody", "publishBody"}
  /\ \E reply \in Replies : rc' = BodyArrives(rc, reply)
  /\ UNCHANGED <<sched, vcall, pcall, acall, ccall, tcall, ucall, rl, tok>>

TimerAborts ==
  /\ rc.pc \in Awaiting /\ rc.timer # None
  /\ rc.now >= rc.timer[1]
  /\ rc' = Abort(rc)
  /\ UNCHANGED <<sched, vcall, pcall, acall, ccall, tcall, ucall, rl, tok>>

\* time passes; an armed timer fires when it is due
RemoteTick ==
  /\ rc.pc \in Awaiting /\ rc.now < MaxRemoteNow
  /\ rc.timer # None => rc.now < rc.timer[1]
  /\ rc' = [rc EXCEPT !.now = @ + 1]
  /\ UNCHANGED <<sched, vcall, pcall, acall, ccall, tcall, ucall, rl, tok>>

NextRemote ==
  \/ RemoteStart
  \/ RemoteResponds
  \/ RemoteSendsBody
  \/ TimerAborts
  \/ RemoteTick

SpecRemote == Init /\ [][NextRemote]_vars

\* ------------------------------------------------------------ retention
\* how the rows of a table got their created_at: one instant each, all written
\* in the same millisecond, or two rows to the millisecond
Stampings == {"rising", "same", "pairs"}

CreatedAt(i, stamps) ==
  IF stamps = "rising" THEN i ELSE IF stamps = "same" THEN 1 ELSE (i + 1) \div 2

\* a table of n rows, numbered in insertion order (new Date() at each INSERT)
Table(n, stamps) == {[id |-> i, createdAt |-> CreatedAt(i, stamps)] : i \in 1..n}

\* the sizes around a cap, from one row below it to MaxExtra rows above it
TableSizes(cap) == (cap - 1)..(cap + MaxExtra)

\* the position of row r in ORDER BY created_at DESC, from 0; rows of the
\* same instant in reverse insertion order
Position(rows, r) ==
  Cardinality({q \in rows : \/ q.createdAt > r.createdAt
                            \/ q.createdAt = r.createdAt /\ q.id > r.id})

DeleteNotInNewest_Oldest(rows, n) ==
  {r \in rows : Cardinality(rows) - 1 - Position(rows, r) < n}

\* DELETE FROM t WHERE id NOT IN (SELECT id FROM t ORDER BY created_at DESC LIMIT n)
DeleteNotInNewest(rows, n) ==
  {r \in rows : Position(rows, r) < n}

\* ------------------------------------------------------------ alert reporter
\* the three channels, in the order notify posts to them
Channels == {"webhookUrl", "wecomWebhookUrl", "feishuWebhookUrl"}
ChannelOrder == <<"webhookUrl", "wecomWebhookUrl", "feishuWebhookUrl">>
\* a configured URL: the empty string, blanks only, or an address
Urls == {"empty", "blank", "address"}
Reporters == [Channels -> Urls]
\* how fetch ends: a 2xx response, another response, a rejected promise
FetchReplies == {"ok", "status", "reject"}

\* hasValue without the trim
hasValue_NoTrim(input) == input # "empty"

\* typeof input === 'string' && input.trim().length > 0
hasValue(input) == input = "address"

isEnabled(reporter) == \E ch \in Channels : hasValue(reporter[ch])

\* the body notify posts to a channel
BodyFor(ch) ==
  CASE ch = "webhookUrl"       -> "payload"
    [] ch = "wecomWebhookUrl"  -> "msgtype"
    [] ch = "feishuWebhookUrl" -> "msg_type"

\* notify(payload): what it returns or that it throws, and the POST requests
\* it has issued by then, in order
notify(reporter, replies) ==
  IF ~isEnabled(reporter)
  THEN [ok |-> FALSE, skipped |-> TRUE, channels |-> None, thrown |-> FALSE, posts |-> <<>>]
  ELSE LET jobs == SelectSeq(ChannelOrder, LAMBDA ch : hasValue(reporter[ch]))
           posts == [i \in 1..Len(jobs) |-> [channel |-> jobs[i], body |-> BodyFor(jobs[i])]]
       IN IF \A i \in 1..Len(jobs) : replies[jobs[i]] = "ok"
          THEN [ok |-> TRUE, skipped |-> FALSE, channels |-> Some(Len(jobs)), thrown |-> FALSE,
                posts |-> posts]
          ELSE [ok |-> FALSE, skipped |-> FALSE, channels |-> None, thrown |-> TRUE,
                posts |-> posts]

\* ---------------------------------------- the validator and the adapters called
\* directly, with every argument of a small set
TitlePads == {1, 60}
BodyPads  == {1, 5001}
Texts(pads) == {None} \cup {Some(Text(n, has)) : n \in pads, has \in SUBSET Vocabulary}
Contents ==
  {None} \cup {Some(c) : c \in [title : Texts(TitlePads), body : Texts(BodyPads),
                                images : {None, Some(0), Some(1), Some(21)},
                                videoUrl : BOOLEAN]}
\* a row of content_assets as runDueTasks reads it (id, title, body), or no asset
AssetRows ==
  {None} \cup {Some([title |-> Some(t), body |-> Some(Text(1, {})), images |-> None,
                     videoUrl |-> FALSE]) : t \in {Text(1, {}), Text(1, {"w1"}), Text(60, {})}}
WordLists   == {None, Some({}), Some({"w2"})}
GlobalLists == {{"w1"}, {"w1", "w2"}}

\* The two functions keep nothing between calls that these arguments do not
\* carry, so one call is observed from the initial state.
NoCallYet == vcall = None /\ pcall = None /\ acall = None /\ ccall = None /\ tcall = None /\ ucall = None

ValidateCall ==
  /\ NoCallYet
  /\ \E content \in Contents, platform \in Registered \cup {"other"},
        wordList \in WordLists, globalList \in GlobalLists :
       vcall' = Some([content |-> content, platform |-> platform, wordList |-> wordList,
                      globalList |-> globalList,
                      result |-> validateContentCompliance(content, platform, wordList, globalList)])
  /\ pcall' = None /\ acall' = None /\ ccall' = None /\ tcall' = None /\ ucall' = None
  /\ UNCHANGED <<sched, units>>

PublishCall ==
  /\ NoCallYet
  /\ \E platform \in Registered, mode \in Modes, contentType \in ContentTypes,
        contentAsset \in AssetRows, globalList \in GlobalLists, reply \in Replies :
       pcall' = Some([platform |-> platform, mode |-> mode, contentType |-> contentType,
                      contentAsset |-> contentAsset, globalList |-> globalList, reply |-> reply,
                      result |-> AdapterPublish(platform, mode, contentType, contentAsset,
                                                globalList, reply),
                      steps  |-> PublishSteps(platform, mode, contentType, contentAsset,
                                              globalList, reply)])
  /\ vcall' = None /\ acall' = None /\ ccall' = None /\ tcall' = None /\ ucall' = None
  /\ UNCHANGED <<sched, units>>

NotifyCall ==
  /\ NoCallYet
  /\ \E reporter \in Reporters, replies \in [Channels -> FetchReplies] :
       acall' = Some([reporter |-> reporter, replies |-> replies] @@ notify(reporter, replies))
  /\ vcall' = None /\ pcall' = None /\ ccall' = None /\ tcall' = None /\ ucall' = None
  /\ UNCHANGED <<sched, units>>

ConstructCall ==
  /\ NoCallYet
  /\ \E class \in AdapterClasses, config \in Configs :
       ccall' = Some([class |-> class, config |-> config, result |-> Construct(class, config)])
  /\ vcall' = None /\ pcall' = None /\ acall' = None /\ tcall' = None /\ ucall' = None
  /\ UNCHANGED <<sched, units>>

\* the end of runDueTasks on a store whose two tables hold about as many rows
\* as they may keep
TrimCall ==
  /\ NoCallYet
  /\ \E nLogs \in TableSizes(LogCap), nMetrics \in TableSizes(MetricCap), stamps \in Stampings :
       tcall' = Some([logsBefore    |-> Table(nLogs, stamps),
                      logs          |-> DeleteNotInNewest(Table(nLogs, stamps), LogCap),
                      metricsBefore |-> Table(nMetrics, stamps),
                      metrics       |-> DeleteNotInNewest(Table(nMetrics, stamps), MetricCap)])
  /\ vcall' = None /\ pcall' = None /\ acall' = None /\ ccall' = None /\ ucall' = None
  /\ UNCHANGED <<sched, units>>

\* the store with one task, marked running with the given retryCount
OneRunning(retryCount) ==
  [tasks   |-> Put(<<>>, 1, [NewTask("a1", At(0), "article", Null) EXCEPT
                               !.status = "running", !.startedAt = At(0),
                               !.retryCount = retryCount]),
   logs    |-> <<>>, metrics |-> <<>>, alerts |-> <<>>,
   hist    |-> Put(<<>>, 1, FreshHist)]

CatchBlock_AuthFinal(retryCount, code) ==
  IF code = "AUTH_FAILED"
  THEN [status |-> "failed", retryCount |-> retryCount + 1, metrics |-> <<>>]
  ELSE LET row == [id |-> 1, accountId |-> "a1", contentType |-> "article",
                   contentAssetId |-> Null, publishAt |-> At(0), retryCount |-> retryCount]
           st  == PublishFailed(OneRunning(retryCount), row, "douyin", Thrown(code, "m"), 0).st
       IN [status |-> st.tasks[1].status, retryCount |-> st.tasks[1].retryCount,
           metrics |-> st.metrics]

\* the catch block of runDueTasks for the snapshot row of a task with the
\* given retryCount and an error with the given code (Null: no code): the
\* task's status and retryCount, and the metrics written
CatchBlock(retryCount, code) ==
  LET row == [id |-> 1, accountId |-> "a1", contentType |-> "article",
              contentAssetId |-> Null, publishAt |-> At(0), retryCount |-> retryCount]
      st  == PublishFailed(OneRunning(retryCount), row, "douyin", Thrown(code, "m"), 0).st
  IN [status |-> st.tasks[1].status, retryCount |-> st.tasks[1].retryCount,
      metrics |-> st.metrics]

\* two failed dispatches of tasks with equal retryCount, one per error
CatchCall ==
  /\ NoCallYet
  /\ \E retryCount \in 0..(MaxRetry + 1), code1 \in Taxonomy \cup {Null},
        code2 \in Taxonomy \cup {Null} :
       ucall' = Some([kind |-> "catch", retryCount |-> retryCount,
                      code1 |-> code1, code2 |-> code2,
                      first |-> CatchBlock(retryCount, code1),
                      second |-> CatchBlock(retryCount, code2)])
  /\ vcall' = None /\ pcall' = None /\ acall' = None /\ ccall' = None /\ tcall' = None
  /\ UNCHANGED <<sched, units>>

\* the messages passed to mapApiError: up to MaxWords of the texts
RawSignals == {S \in SUBSET RawWords : Cardinality(S) <= MaxWords}

\* adapter.mapApiError(new Error(raw)), called twice on the same message
MapErrorCall ==
  /\ NoCallYet
  /\ \E raw \in RawSignals :
       ucall' = Some([kind |-> "map", raw |-> raw,
                      result |-> mapApiError(raw), again |-> mapApiError(raw)])
  /\ vcall' = None /\ pcall' = None /\ acall' = None /\ ccall' = None /\ tcall' = None
  /\ UNCHANGED <<sched, units>>

NextCalls ==
  \/ ValidateCall
  \/ PublishCall
  \/ NotifyCall
  \/ ConstructCall
  \/ TrimCall
  \/ CatchCall
  \/ MapErrorCall

SpecCalls == Init /\ [][NextCalls]_vars

TypeOK ==
  /\ clock \in 0..MaxTime
  /\ DOMAIN tasks \subseteq TaskIds
  /\ \A id \in DOMAIN tasks :
       /\ tasks[id].status \in {"scheduled", "running", "retrying", "success", "failed", "cancelled"}
       /\ tasks[id].retryCount \in 0..(MaxRetry + 1)
  /\ \A c \in Cycles : cyc[c].pc \in {"idle", "publish", "alert"}

\* ------------------------------------------------------------------ claims
Row(c)       == cyc[c].snap[cyc[c].idx]
LogsOf(id, level)       == Count(logs, LAMBDA e : e.taskId = id /\ e.level = level)
MetricsOf(id, success)  == Count(metrics, LAMBDA e : e.taskId = id /\ e.success = success)
AlertsOf(id, event)     == Count(alerts, LAMBDA e : e.taskId = id /\ e.event = event)
\* publish calls of the task that returned a result, since its creation or last reset
Succeeded(id) == hist[id].att - hist[id].fails - hist[id].inflight

\* Where a task stands once no poll cycle is running, when every attempt made
\* for it since its creation or reset failed and its account was there each time.
RetryLadder(id) ==
  LET r == tasks[id]
      h == hist[id]
  IN /\ h.dueCycles = 0 => r.status = "scheduled" /\ r.retryCount = 0 /\ h.att = 0
     /\ h.dueCycles \in 1..MaxRetry =>
          /\ r.status = "retrying"
          /\ r.retryCount = h.dueCycles
          /\ r.completedAt = NullTime
          /\ h.att = h.dueCycles
     /\ h.dueCycles > MaxRetry =>
          /\ r.status = "failed"
          /\ r.retryCount = MaxRetry + 1
          /\ r.completedAt # NullTime
          /\ h.att = MaxRetry + 1

C2_State ==
  AllIdle => \A id \in DOMAIN tasks :
    (hist[id].op = "none" /\ ~hist[id].miss /\ Succeeded(id) > 0) =>
       /\ tasks[id].status = "success"
       /\ tasks[id].completedAt # NullTime
       /\ tasks[id].errorMessage = Null
       /\ tasks[id].remoteId \in RemoteIds
       /\ tasks[id].retryCount = hist[id].fails
       /\ MetricsOf(id, TRUE) = 1

\* the step part of C2: the step in which the awaited publish returns
C2_Step ==
  \A c \in Cycles, o \in Outcomes :
    (o.ok /\ PublishSettlesWith(c, o)) =>
       LET id == Row(c).id
       IN /\ tasks'[id].status = "success"
          /\ tasks'[id].completedAt = At(clock)
          /\ tasks'[id].errorMessage = Null
          /\ tasks'[id].retryCount = tasks[id].retryCount
          /\ tasks'[id].remoteId = o.remoteId
          /\ Count(metrics', LAMBDA e : e.taskId = id /\ e.success) = MetricsOf(id, TRUE) + 1
          /\ Count(metrics', LAMBDA e : e.taskId = id /\ ~e.success) = MetricsOf(id, FALSE)

\* C2: when adapter.publish returns a result for a due task whose account
\* exists, that poll cycle leaves the task in success with completedAt set,
\* errorMessage cleared, retryCount unchanged and remoteId the identifier the
\* adapter returned, and records exactly one success metric for the task.
C2_SuccessPath == []C2_State /\ [][C2_Step]_vars

C2_Witness ==
  /\ AllIdle
  /\ \E id \in DOMAIN tasks :
       /\ hist[id].op = "none" /\ hist[id].fails = 1 /\ Succeeded(id) = 1
       /\ tasks[id].status = "success" /\ tasks[id].retryCount = 1
       /\ tasks[id].remoteId = "r2"

\* the state part of C3: a task scheduled for an account that never existed
C3_State ==
  AllIdle => \A id \in DOMAIN tasks :
    (hist[id].op = "none" /\ tasks[id].accountId = GhostAccount /\ hist[id].dueCycles >= 1) =>
       /\ tasks[id].status = "failed"
       /\ tasks[id].retryCount = 0
       /\ tasks[id].startedAt = NullTime
       /\ hist[id].att = 0
       /\ LogsOf(id, "error") = 1
       /\ LogsOf(id, "alert") = 1
       /\ AlertsOf(id, "publish_failed_missing_account") = 1
       /\ Count(alerts, LAMBDA e : e.taskId = id) = 1

\* the step part of C3: a step that raises the missing-account alert for a task
C3_Step ==
  \A id \in DOMAIN tasks :
    (Count(alerts', LAMBDA e : e.taskId = id /\ e.event = "publish_failed_missing_account")
       > AlertsOf(id, "publish_failed_missing_account")) =>
       /\ tasks[id].accountId \notin DOMAIN accounts
       /\ tasks'[id].status = "failed"
       /\ tasks'[id].completedAt = At(clock)
       /\ tasks'[id].retryCount = tasks[id].retryCount
       /\ tasks'[id].startedAt = tasks[id].startedAt
       /\ hist'[id].att = hist[id].att
       /\ hist'[id].inflight = hist[id].inflight
       /\ Count(alerts', LAMBDA e : e.taskId = id) = Count(alerts, LAMBDA e : e.taskId = id) + 1
       /\ Count(logs', LAMBDA e : e.taskId = id /\ e.level = "error") = LogsOf(id, "error") + 1
       /\ Count(logs', LAMBDA e : e.taskId = id /\ e.level = "alert") = LogsOf(id, "alert") + 1

\* C3: a due task whose account does not exist goes to failed in one poll
\* cycle, without being set to running or dispatched, with retryCount
\* unchanged; an error log and an alert log are written, the alert reporter is
\* called once with publish_failed_missing_account, and no later cycle attempts
\* the task.
C3_MissingAccount == []C3_State /\ [][C3_Step]_vars

C3_Witness ==
  /\ AllIdle
  /\ \E id \in DOMAIN tasks :
       /\ hist[id].op = "none" /\ tasks[id].accountId = GhostAccount
       /\ hist[id].dueCycles >= 2
       /\ tasks[id].status = "failed"

\* C4: a task in success, failed or cancelled keeps that status and is not
\* attempted until an operator retry or executeNow makes it scheduled again.
C4_TerminalStable ==
  [][\A id \in DOMAIN tasks :
       tasks[id].status \in Terminal =>
         \/ tasks'[id].status = "scheduled"
         \/ /\ tasks'[id].status = tasks[id].status
            /\ hist'[id].att = hist[id].att]_vars

\* C5: at most one invocation of runDueTasks is in progress at any time.
C5_NoOverlap == Cardinality({c \in Cycles : Active(c)}) <= 1

\* C6: without operator action, a task is never handed to adapter.publish while
\* an earlier dispatch of it is unresolved, and a task in success has been
\* published successfully exactly once.
C6_AtMostOnce ==
  \A id \in DOMAIN tasks :
    /\ hist[id].inflight <= 1
    /\ tasks[id].status = "success" => Succeeded(id) = 1

\* C7: without operator reset, retryCount never decreases and equals the number
\* of failed attempts made for the task.
C7_RetryCountMonotone ==
  [][\A id \in DOMAIN tasks :
       /\ tasks'[id].retryCount >= tasks[id].retryCount
       /\ tasks'[id].retryCount = hist'[id].fails]_vars

\* C8: cancel(id) changes a task only when it is scheduled or retrying (status
\* becomes cancelled, completedAt is stamped, nothing else changes); for any
\* other status and for an unknown id the whole store is unchanged, so a
\* dispatch in flight is not preempted.
C8_Cancel ==
  [][\A id \in TaskIds :
       CancelCall(id) =>
         /\ IF id \in DOMAIN tasks /\ tasks[id].status \in {"scheduled", "retrying"}
            THEN tasks' = [tasks EXCEPT ![id] =
                             [@ EXCEPT !.status = "cancelled", !.completedAt = At(clock)]]
            ELSE tasks' = tasks
         /\ UNCHANGED <<accounts, logs, metrics, alerts, cyc>>
         /\ \A t \in DOMAIN hist : hist'[t].inflight = hist[t].inflight]_vars

C8_Witness ==
  \E id, other \in DOMAIN tasks :
    /\ tasks[id].status = "cancelled" /\ tasks[id].completedAt = At(clock)
    /\ hist[id].op = "dirty"
    /\ tasks[other].status = "running" /\ hist[other].inflight = 1
    /\ ops = 1

\* the step part of C9; with cycles one after another, no cycle holds an unread
\* row of a task that has exhausted its retries when the reset arrives
C9_Step ==
  \A id \in DOMAIN tasks :
    RetryCall(id) =>
      /\ tasks' = [tasks EXCEPT ![id] =
                     [@ EXCEPT !.status = "scheduled", !.retryCount = 0,
                               !.errorMessage = Null, !.completedAt = NullTime]]
      /\ (tasks[id].status = "failed" /\ tasks[id].retryCount = MaxRetry + 1)
           => hist'[id].op = "retry" /\ hist'[id].exhausted

\* the state part of C9: a task reset by retry, while no cycle held a row of it,
\* has the attempts of a fresh task
C9_State ==
  AllIdle => \A id \in DOMAIN tasks :
    (hist[id].op = "retry" /\ ~hist[id].miss /\ hist[id].fails = hist[id].att)
      => RetryLadder(id)

C10_Step ==
  \A id \in DOMAIN tasks :
    ExecuteNowCall(id) =>
      /\ tasks' = [tasks EXCEPT ![id] =
                     [@ EXCEPT !.status = "scheduled", !.retryCount = 0,
                               !.errorMessage = Null, !.completedAt = NullTime,
                               !.publishAt = tasks'[id].publishAt]]
      /\ ~IsNaN(tasks'[id].publishAt) /\ tasks'[id].publishAt[1] < clock

\* the state part of C10: publishAt stays in the past, and once a cycle started
\* after the call has run to its end the task has left scheduled through an
\* attempt made after the call (an attempt begun before the call does not count)
C10_State ==
  \A id \in DOMAIN tasks :
    hist[id].op \in {"exec", "dirtyExec"} =>
      /\ ~IsNaN(tasks[id].publishAt) /\ tasks[id].publishAt[1] < clock
      /\ (AllIdle /\ hist[id].dueCycles >= 1) =>
           /\ tasks[id].status \in {"success", "retrying", "failed"}
           /\ hist[id].att >= 1 \/ hist[id].miss

\* C10: executeNow(id) sets status scheduled, retryCount 0, clears errorMessage
\* and completedAt and sets publishAt strictly before the current time, whatever
\* the status was, so the next poll cycle started afterwards attempts the task.
C10_ExecuteNow == []C10_State /\ [][C10_Step]_vars

\* C11: an operator retry or executeNow issued while the task's dispatch is in
\* flight is not overwritten: when the awaited publish settles for a task that
\* the operator has meanwhile reset to scheduled, the task stays scheduled with
\* retryCount 0.
C11_ResetSurvives ==
  [][\A c \in Cycles, o \in Outcomes :
       (PublishSettlesWith(c, o) /\ tasks[Row(c).id].status = "scheduled") =>
          /\ tasks'[Row(c).id].status = "scheduled"
          /\ tasks'[Row(c).id].retryCount = 0]_vars

\* the step in which the notify awaited by a poll cycle rejects
C12_Step ==
  \A c \in Cycles :
    AlertSettlesWith(c, FALSE) =>
      LET id   == Row(c).id
          good == AfterAlert(Store, cyc[c], TRUE, accounts, clock)
      IN /\ tasks'[id] = tasks[id]
         /\ tasks' = good.st.tasks
         /\ metrics' = good.st.metrics
         /\ alerts' = good.st.alerts
         /\ cyc'[c] = good.cy
         /\ Len(logs') = Len(good.st.logs) + 1
         /\ Count(logs', LAMBDA e : e.taskId = id /\ e.level = "warn")
              = Count(good.st.logs, LAMBDA e : e.taskId = id /\ e.level = "warn") + 1

\* C12: when the alert reporter's notify rejects, runDueTasks goes on as it
\* does when the alert is delivered: the task's row is what it was, every
\* remaining due task of the cycle is processed the same way, and the only
\* difference is one more warn log for the task.
C12_AlertFailure == [][C12_Step]_vars

C12_Witness ==
  /\ AllIdle
  /\ \E id, other \in DOMAIN tasks :
       /\ id < other
       /\ tasks[id].accountId = GhostAccount /\ tasks[id].status = "failed"
       /\ LogsOf(id, "warn") = 1 /\ Len(alerts) = 1
       /\ hist[id].dueCycles = 1 /\ hist[other].dueCycles = 1
       /\ tasks[other].status = "success"

\* the last entry of a log-like table that belongs to task id
LastFor(s, id) ==
  s[CHOOSE i \in 1..Len(s) : s[i].taskId = id /\ \A j \in (i + 1)..Len(s) : s[j].taskId # id]

\* the step in which a publish attempt of task id fails
C13_Step ==
  \A id \in DOMAIN tasks :
    hist'[id].fails = hist[id].fails + 1 =>
      /\ Count(metrics', LAMBDA e : e.taskId = id /\ ~e.success) = MetricsOf(id, FALSE) + 1
      /\ IF tasks'[id].status = "failed"
         THEN /\ tasks'[id].completedAt = At(clock)
              /\ Count(logs', LAMBDA e : e.taskId = id /\ e.level = "error") = LogsOf(id, "error") + 1
              /\ Count(logs', LAMBDA e : e.taskId = id /\ e.level = "alert") = LogsOf(id, "alert") + 1
              /\ Count(alerts', LAMBDA e : e.taskId = id) = Count(alerts, LAMBDA e : e.taskId = id) + 1
              /\ LastFor(alerts', id).event = "publish_failed_final"
              /\ LastFor(alerts', id).platform = LastFor(metrics', id).platform
              /\ LastFor(alerts', id).errorCode = LastFor(metrics', id).errorCode
              /\ ~LastFor(metrics', id).success
              /\ \E c \in Cycles : cyc'[c].pc = "alert" /\ cyc'[c].snap[cyc'[c].idx].id = id
         ELSE /\ tasks'[id].status = "retrying"
              /\ Count(logs', LAMBDA e : e.taskId = id /\ e.level = "alert") = LogsOf(id, "alert")
              /\ Count(logs', LAMBDA e : e.taskId = id /\ e.level = "warn") = LogsOf(id, "warn") + 1
              /\ Count(alerts', LAMBDA e : e.taskId = id) = Count(alerts, LAMBDA e : e.taskId = id)

\* C13: a failed attempt that exhausts the retries writes, in the same step of
\* the cycle, failed with an error log, an alert log and a failure metric and
\* calls the alert reporter exactly once with publish_failed_final and the
\* task's id, platform and error code; a failed attempt that leaves the task
\* retrying writes no alert log and calls no alert reporter.
C13_FinalFailureSignalled == [][C13_Step]_vars

C13_Witness ==
  \E id \in DOMAIN tasks :
    /\ tasks[id].status = "failed" /\ tasks[id].retryCount = MaxRetry + 1
    /\ hist[id].fails = MaxRetry + 1
    /\ AlertsOf(id, "publish_failed_final") = 1 /\ LogsOf(id, "alert") = 1
    /\ LastFor(alerts, id).errorCode = "AUTH_FAILED"
    /\ LastFor(alerts, id).platform = "toutiao"
    /\ MetricsOf(id, FALSE) = MaxRetry + 1

\* C14: a publish whose content asset contains a word of the sensitive-word
\* list or breaks the format limits of the adapter's platform never returns
\* ok, on any of the three adapters, in mock and in real mode.
C14_ComplianceGate ==
  \A call \in {pcall[i] : i \in DOMAIN pcall} :
    (/\ call.contentAsset # None
     /\ validateContentCompliance(call.contentAsset, call.platform, None, call.globalList) # "pass")
      => ~call.result.ok

\* C15: the errorCode of every failure metric and of every
\* publish_failed_final alert is a code of the unified taxonomy.
C15_TaxonomyOnly ==
  /\ \A i \in DOMAIN metrics : ~metrics[i].success => metrics[i].errorCode \in Taxonomy
  /\ \A i \in DOMAIN alerts :
       alerts[i].event = "publish_failed_final" => alerts[i].errorCode \in Taxonomy

\* the task's account exists and its platform has no adapter in the registry
NoAdapterFor(id) ==
  /\ tasks[id].accountId \in DOMAIN accounts
  /\ accounts[tasks[id].accountId].platform \notin Registered

\* C16: the attempt of a due task whose account's platform has no adapter
\* ends in failed at once, with the retry count untouched: the task is never
\* put to retrying.
C16_AbsentAdapterFinal ==
  [][\A id \in DOMAIN tasks :
       (NoAdapterFor(id) /\ hist'[id].fails = hist[id].fails + 1) =>
          /\ tasks'[id].status = "failed"
          /\ tasks'[id].retryCount = tasks[id].retryCount]_vars

\* the words of the list in force that the title or the body of the content contains
WordsIn(call) ==
  LET list  == IF call.wordList = None THEN call.globalList ELSE call.wordList[1]
      c     == call.content[1]
      found(t) == IF t = None THEN {} ELSE t[1].has
  IN list \cap (found(c.title) \cup found(c.body))

\* C20: validateContentCompliance fails with CONTENT_VIOLATION whenever the
\* title or the body contains a word of the sensitive-word list in force, on
\* every platform and whatever format errors the content has; it fails with
\* INVALID_PAYLOAD only when no such word is found.
C20_SensitiveFirst ==
  \A call \in {vcall[i] : i \in DOMAIN vcall} :
    call.content # None =>
      /\ WordsIn(call) # {} => call.result = "CONTENT_VIOLATION"
      /\ call.result = "INVALID_PAYLOAD" => WordsIn(call) = {}

C20_Witness ==
  \E call \in {vcall[i] : i \in DOMAIN vcall} :
    /\ call.content # None /\ call.platform = "xiaohongshu"
    /\ call.content[1].title = Some(Text(60, {})) /\ call.content[1].body = Some(Text(5001, {"w2"}))
    /\ call.content[1].images = Some(0)
    /\ call.wordList = None /\ call.globalList = {"w1", "w2"}
    /\ call.result = "CONTENT_VIOLATION"

\* publishAt p parses to an instant <= now
DueTime(p, now) == ~IsNaN(p) /\ p[1] <= now

\* row r is one a poll cycle that starts at time now may act on
DueRow(r, now) == r.status \in {"scheduled", "retrying"} /\ DueTime(r.publishAt, now)

\* task id was due when the poll cycle taking this step started: for the
\* first step of a cycle by the table as it is, for a later one by the rows
\* the cycle selected then (the rows whose status was scheduled or retrying)
DueAtCycleStart(id) ==
  IF starts' # starts THEN DueRow(tasks[id], clock)
  ELSE \E c \in Cycles :
         /\ cyc'[c] # cyc[c]
         /\ \E i \in DOMAIN cyc[c].snap : cyc[c].snap[i].id = id /\ DueTime(cyc[c].snap[i].publishAt, cyc[c].now)

C17_Step ==
  (starts' # starts \/ cyc' # cyc) =>
    \A id \in DOMAIN tasks :
      /\ tasks'[id] # tasks[id] => DueAtCycleStart(id)
      /\ (IsNaN(tasks[id].publishAt) \/ tasks[id].publishAt[1] > clock) =>
           /\ tasks'[id] = tasks[id]
           /\ hist'[id] = hist[id]
           /\ \A c \in Cycles : cyc'[c].pc # "idle" => cyc'[c].snap[cyc'[c].idx].id # id

\* C17: a step of a poll cycle changes a task only if the task was scheduled
\* or retrying with a publishAt that parses to an instant <= now when that
\* cycle started; a task whose publishAt is in the future or does not parse
\* is left as it is by every step of every cycle and is never dispatched.
C17_Dueness == [][C17_Step]_vars

C17_Witness ==
  /\ AllIdle /\ starts >= 2
  /\ \E id, other \in DOMAIN tasks :
       /\ tasks[id] = NewTask("a1", BadDate, "article", Null)
       /\ hist[id].att = 0 /\ hist[id].dueCycles = 0
       /\ tasks[other].status = "success" /\ hist[other].dueCycles = 1

\* task id is on an account of the platform, with the content type and no content asset
Scenario(id, platform, contentType) ==
  /\ tasks[id].accountId \in DOMAIN accounts
  /\ accounts[tasks[id].accountId].platform = platform
  /\ tasks[id].contentType = contentType
  /\ tasks[id].contentAssetId = Null

\* C18: a task on a mock-mode douyin account with the forced-auth-failure
\* content type and no content asset is, after three poll cycles, failed with
\* retryCount 3, an alert log and a failure metric whose errorCode is
\* AUTH_FAILED.
C18_ForcedAuthFailure ==
  \A id \in DOMAIN tasks :
    (Scenario(id, "douyin", "mock_auth_failure") /\ AllIdle /\ hist[id].dueCycles = 3) =>
      /\ tasks[id].status = "failed"
      /\ tasks[id].retryCount = 3
      /\ LogsOf(id, "alert") >= 1
      /\ \E i \in DOMAIN metrics :
           metrics[i].taskId = id /\ ~metrics[i].success /\ metrics[i].errorCode = "AUTH_FAILED"

\* C19: a task with a normal content type and no content asset on an account
\* of any registered platform, adapters in mock mode, is in success after one
\* poll cycle, with exactly one success metric.
C19_NormalContent ==
  \A id \in DOMAIN tasks : \A platform \in Registered :
    (Scenario(id, platform, "article") /\ AllIdle /\ hist[id].dueCycles = 1) =>
      /\ tasks[id].status = "success"
      /\ MetricsOf(id, TRUE) = 1

\* the content of the call breaks a limit of its platform; a content that
\* carries no images list has no image
BreaksLimits(call) ==
  LET limits == PlatformLimits[call.platform]
      c      == call.content[1]
      len(t) == IF t = None THEN 0 ELSE t[1].len
      count  == IF c.images = None THEN 0 ELSE c.images[1]
  IN \/ len(c.title) > limits.titleMaxLength
     \/ len(c.body) > limits.bodyMaxLength
     \/ count < limits.minImages
     \/ count > limits.maxImages

\* C21: on a platform of the limits table and for content without sensitive
\* words, validateContentCompliance fails with INVALID_PAYLOAD exactly when
\* the title or the body is longer than the platform allows or the number of
\* images, zero for a content without images list, is outside
\* [minImages, maxImages]; otherwise it returns.
C21_FormatLimits ==
  \A call \in {vcall[i] : i \in DOMAIN vcall} :
    (call.content # None /\ call.platform \in DOMAIN PlatformLimits /\ WordsIn(call) = {}) =>
      call.result = IF BreaksLimits(call) THEN "INVALID_PAYLOAD" ELSE "pass"

Configured(reporter) == {ch \in Channels : reporter[ch] \notin {"empty", "blank"}}

\* C23: with no channel configured notify returns {ok: false, skipped: true}
\* and issues no request; with N >= 1 channels configured it issues exactly
\* one POST to each configured channel and none to the others, and returns
\* {ok: true, channels: N} when all of them succeed.
C23_AlertFanOut ==
  \A call \in {acall[i] : i \in DOMAIN acall} :
    LET on == Configured(call.reporter)
        postsTo(ch) == Cardinality({i \in DOMAIN call.posts : call.posts[i].channel = ch})
    IN IF on = {}
       THEN call.skipped /\ ~call.ok /\ ~call.thrown /\ call.posts = <<>>
       ELSE /\ \A ch \in Channels : postsTo(ch) = IF ch \in on THEN 1 ELSE 0
            /\ (\A ch \in on : call.replies[ch] = "ok") =>
                 call.ok /\ ~call.skipped /\ call.channels = Some(Cardinality(on))

C23_Witness ==
  \E call \in {acall[i] : i \in DOMAIN acall} :
    /\ call.reporter = [webhookUrl |-> "blank", wecomWebhookUrl |-> "address",
                        feishuWebhookUrl |-> "address"]
    /\ call.ok /\ call.channels = Some(2) /\ Len(call.posts) = 2
    /\ call.posts[1].channel = "wecomWebhookUrl" /\ call.posts[2].channel = "feishuWebhookUrl"

\* C24: the instants at which calls of enforceRateLimit on one adapter
\* instance complete and stamp lastRunAt are pairwise at least minIntervalMs
\* apart, also when calls are in flight at the same time.
C24_RateLimitSerializes ==
  \A i, j \in DOMAIN rl.stamps : i < j => rl.stamps[j] - rl.stamps[i] >= MinIntervalMs

\* C25: once an authenticate() has completed successfully, in mock mode and
\* in real mode for every lifetime the platform reports, the token is valid
\* at every instant before tokenExpiresAt and at no instant from
\* tokenExpiresAt on.
C25_TokenValidity ==
  tok.authedAt # None =>
    /\ tok.accessToken # None
    /\ tok.now < tok.tokenExpiresAt => isTokenValid(tok)
    /\ tok.now >= tok.tokenExpiresAt => ~isTokenValid(tok)

C25_Witness ==
  /\ tok.mode = "real" /\ tok.authedAt = Some(2)
  /\ tok.tokenExpiresAt = 4 /\ tok.now = 4
  /\ ~isTokenValid(tok)
  /\ tok.call[1] = "done" /\ tok.call[2] = "idle"

\* the configuration is one the claim calls invalid
InvalidConfig(config) ==
  LET real == config.mode = Some("real")
      bad(id) == id \in {None, Some("placeholder")}
  IN \/ config.mode \notin {None, Some("mock"), Some("real")}
     \/ real /\ config.publishUrl # Some("wellformed")
     \/ real /\ (bad(config.appId) \/ bad(config.appSecret))
     \/ config.timeoutMs \in {Some("zero"), Some("negative"), Some("fraction"), Some("NaN")}

\* C26: the construction of an adapter fails with INVALID_CONFIG, and leaves
\* no adapter, for every configuration whose mode is neither mock nor real,
\* whose publishUrl, appId or appSecret is missing or unusable in real mode,
\* or whose supplied timeoutMs is not a positive integer.
C26_InvalidNotConstructible ==
  \A call \in {ccall[i] : i \in DOMAIN ccall} :
    InvalidConfig(call.config) => call.result = None

\* C27: no remote call of a dispatch stays in flight longer than the
\* adapter's timeoutMs: it has been aborted by then, so the dispatch does not
\* wait for the remote side without end.
C27_RemoteCallsTimeOut ==
  rc.pc \in Awaiting => rc.now - rc.since <= TimeoutTicks

NoOlderKept(before, after) ==
  \A d \in before \ after : \A k \in after : k.createdAt >= d.createdAt

\* C28: after the retention step at the end of a poll cycle at most 100 task
\* logs and at most 500 publish metrics remain, and every row that remains is
\* at least as recent by createdAt as every row that was deleted.
C28_RetentionCaps ==
  tcall # None =>
    /\ Cardinality(tcall[1].logs) <= LogCap
    /\ Cardinality(tcall[1].metrics) <= MetricCap
    /\ tcall[1].logs \subseteq tcall[1].logsBefore
    /\ tcall[1].metrics \subseteq tcall[1].metricsBefore
    /\ NoOlderKept(tcall[1].logsBefore, tcall[1].logs)
    /\ NoOlderKept(tcall[1].metricsBefore, tcall[1].metrics)

C28_Witness ==
  /\ tcall # None
  /\ Cardinality(tcall[1].logsBefore) > LogCap /\ Cardinality(tcall[1].metricsBefore) > MetricCap
  /\ Cardinality(tcall[1].logs) = LogCap /\ Cardinality(tcall[1].metrics) = MetricCap
  /\ \E d \in tcall[1].logsBefore \ tcall[1].logs : \E k \in tcall[1].logs : k.createdAt > d.createdAt

StepOrder == <<"rateLimit", "ensureAuthenticated", "compliance", "publish", "remote">>

\* C29: on every adapter and in every mode publish performs its steps in the
\* order rate-limit wait, ensureAuthenticated, compliance check, routed
\* publish; no request goes to the platform before ensureAuthenticated was
\* called, and a publish that stopped early stopped at a failed step.
C29_PublishStepOrder ==
  pcall # None =>
    LET steps == pcall[1].steps
    IN /\ steps = SubSeq(StepOrder, 1, Len(steps))
       /\ Len(steps) < 4 => ~pcall[1].result.ok

Edges ==
  {<<"scheduled", "running">>, <<"retrying", "running">>,
   <<"running", "success">>, <<"running", "retrying">>, <<"running", "failed">>,
   <<"scheduled", "failed">>, <<"retrying", "failed">>,
   <<"scheduled", "cancelled">>, <<"retrying", "cancelled">>}
  \cup {<<s, "scheduled">> : s \in {"retrying", "running", "success", "failed", "cancelled"}}

\* the statuses the row of task id takes in one step: where the step ran the
\* UPDATE to running and, getAdapter having thrown, the UPDATE of the catch
\* block, the row went through running
StatusPath(id) ==
  LET from == tasks[id].status
      to   == tasks'[id].status
  IN IF hist'[id].att = hist[id].att + 1 /\ to # "running"
     THEN <<from, "running", to>>
     ELSE <<from, to>>

C30_Step ==
  \A id \in DOMAIN tasks \cap DOMAIN tasks' :
    LET path == StatusPath(id)
    IN \A i \in 1..(Len(path) - 1) :
         path[i] # path[i + 1] =>
           /\ <<path[i], path[i + 1]>> \in Edges
           /\ path[i + 1] \in {"cancelled", "scheduled"} <=> ops' # ops
           /\ (path[i] \in {"scheduled", "retrying"} /\ path[i + 1] = "failed") =>
                 tasks[id].accountId \notin DOMAIN accounts

NewMetrics(id) == {i \in (Len(metrics) + 1)..Len(metrics') : metrics'[i].taskId = id}

\* an adapter.publish of task id settled in this step
DispatchSettled(id) == hist'[id].inflight < hist[id].inflight

C32_Step ==
  \A id \in DOMAIN tasks \cap DOMAIN tasks' :
    /\ Cardinality(NewMetrics(id)) = (IF DispatchSettled(id) THEN 1 ELSE 0)
    /\ \A i \in NewMetrics(id) :
         IF metrics'[i].success THEN metrics'[i].errorCode = Null
         ELSE metrics'[i].errorCode \in ErrorCodes

\* C32: every adapter dispatch of a poll cycle writes exactly one publish
\* metric for the task, success with no errorCode when the dispatch succeeded
\* and failure with the code of the error when it failed; nothing else writes
\* a metric (the missing-account path writes none), so a task has as many
\* metrics as it had dispatches.
C32_MetricAccounting == [][C32_Step]_vars

CategoryOrder == <<"AUTH_FAILED", "RATE_LIMIT", "INVALID_PAYLOAD", "TIMEOUT",
                   "CAPTCHA_REQUIRED", "CONTENT_VIOLATION">>

\* the categories a message holds a marker of, as positions in CategoryOrder
Marked(raw) == {i \in 1..Len(CategoryOrder) : raw \cap MarkersOf[CategoryOrder[i]] # {}}

\* C33: mapApiError answers every message, the same way each time: with the
\* one category the message holds a marker of, with REQUEST_FAILED when it
\* holds none, and with the first marked category in the order AUTH_FAILED,
\* RATE_LIMIT, INVALID_PAYLOAD, TIMEOUT, CAPTCHA_REQUIRED, CONTENT_VIOLATION
\* when it holds markers of several.
C33_MapApiErrorPriority ==
  (ucall # None /\ ucall[1].kind = "map") =>
    LET raw == ucall[1].raw
    IN /\ ucall[1].result = ucall[1].again
       /\ ~ucall[1].result.ok
       /\ ucall[1].result.code =
            (IF Marked(raw) = {} THEN "REQUEST_FAILED"
             ELSE CategoryOrder[CHOOSE i \in Marked(raw) : \A j \in Marked(raw) : i <= j])

C33_Witness ==
  /\ ucall # None /\ ucall[1].kind = "map"
  /\ ucall[1].raw = {"ETIMEDOUT", "401"}
  /\ ucall[1].result.code = "AUTH_FAILED"

\* C34: in every interleaving of schedulePublish, poll cycles and the
\* operator calls, a task's completedAt is set exactly when its status is
\* success, failed or cancelled.
C34_CompletedAtTerminal ==
  \A id \in DOMAIN tasks :
    tasks[id].completedAt # NullTime <=> tasks[id].status \in Terminal

\* C35: whenever no poll cycle is in progress no task has status running:
\* every task a cycle set to running is success, retrying or failed by the
\* time the cycle's runDueTasks call settles.
C35_NoTaskLeftRunning ==
  AllIdle => \A id \in DOMAIN tasks : tasks[id].status # "running"

C35_Witness ==
  /\ AllIdle
  /\ \E id \in DOMAIN tasks :
       /\ hist[id].op \in {"dirty", "dirtyExec"}
       /\ tasks[id].status = "retrying"

\* C36: a task's remoteId is set only while its status is success; a task
\* reset by retry or executeNow after a success does not keep the remoteId of
\* the earlier publish.
C36_RemoteIdOnlyOnSuccess ==
  \A id \in DOMAIN tasks : tasks[id].remoteId # Null => tasks[id].status = "success"

\* adapter.publish is called for task id in this step
DispatchedNow(id) == hist'[id].inflight > hist[id].inflight

C37_Step ==
  \A id \in DOMAIN tasks \cap DOMAIN tasks' :
    DispatchedNow(id) =>
      /\ tasks[id].accountId \in DOMAIN accounts
      /\ accounts[tasks[id].accountId].status = "active"

\* C37: a poll cycle dispatches a due task to an adapter only when the owning
\* account's status is active; a due task of a disabled account is never
\* published.
C37_DisabledNotPublished == [][C37_Step]_vars

\* C38: a task whose contentAssetId is set but resolves to no stored content
\* asset never reaches success, on any platform.
C38_AbsentAssetNotPublished ==
  \A id \in DOMAIN tasks :
    (tasks[id].contentAssetId # Null /\ AssetOf(tasks[id].contentAssetId) = None) =>
      tasks[id].status # "success"

====
